---- MODULE Spec2Model ----
(***************************************************************************)
(* Tool manager of the live-API demo: the registry of tools (an insertion- *)
(* ordered Map from name to tool instance), registerTool,                  *)
(* getToolDeclarations and handleToolCall, with the WeatherTool and        *)
(* EmailTool plugins the constructor registers.                            *)
(*                                                                         *)
(* JavaScript values are records with a type tag t; a property an object   *)
(* does not have is a field the record does not have.                      *)
(***************************************************************************)
EXTENDS Integers, Sequences, FiniteSets, TLC

VARIABLES tools, inflight, last, racers, forecasts

\* What the callers of the manager keep of its answers: the registerTool
\* calls two callers race with and how each ended (racers), and the
\* forecasts handleToolCall has returned so far (forecasts). The manager
\* reads neither.
callers == <<racers, forecasts>>

vars == <<tools, inflight, last, racers, forecasts>>

(***************************************************************************)
(* Bounds of the model.                                                    *)
(***************************************************************************)
\* handleToolCall invocations suspended at their await, at most.
MaxInflight == 2

(***************************************************************************)
(* JavaScript values.                                                      *)
(***************************************************************************)
Undefined == [t |-> "undefined"]
Null == [t |-> "null"]
Str(s) == [t |-> "string", v |-> s]
\* new Error(msg), and the TypeError the engine raises itself
Err(msg) == [t |-> "Error", message |-> msg]
\* a thrown object that is no Error and has no message property
PlainObject == [t |-> "object"]

\* !value for the values of the model
Falsy(value) == value.t \in {"undefined", "null"} \/ value = Str("")

\* error.message: a property read. Reading a property of null or undefined
\* throws a TypeError; a value without the property gives undefined.
CanReadProperty(value) == value.t \notin {"undefined", "null"}
MessageOf(value) ==
    IF "message" \in DOMAIN value THEN Str(value.message) ELSE Undefined

(***************************************************************************)
(* Tool instances. decl says what getDeclaration is and does, exec what    *)
(* execute is: "missing" when the property is not a function.              *)
(***************************************************************************)
GoogleSearchToolInst == [pid |-> "GoogleSearchTool", decl |-> "object", exec |-> "search"]
WeatherToolInst == [pid |-> "WeatherTool", decl |-> "seq", exec |-> "weather"]
EmailToolInst == [pid |-> "EmailTool", decl |-> "object", exec |-> "email"]

\* toolInstance null or undefined
NullInst == [pid |-> "null", decl |-> "missing", exec |-> "missing"]

\* Instances a caller may hand to registerTool: they differ in what
\* getDeclaration and execute are.
GoodInst == [pid |-> "Good", decl |-> "object", exec |-> "generic"]
NoExecuteInst == [pid |-> "NoExecute", decl |-> "seq", exec |-> "missing"]
DynamicInsts ==
    { GoodInst,
      NoExecuteInst,
      [pid |-> "NoDeclare",  decl |-> "missing",   exec |-> "generic"],
      [pid |-> "DeclThrows", decl |-> "throws",    exec |-> "generic"],
      [pid |-> "DeclUndef",  decl |-> "undefined", exec |-> "generic"],
      [pid |-> "DeclNull",   decl |-> "null",      exec |-> "generic"],
      [pid |-> "DeclEmpty",  decl |-> "emptySeq",  exec |-> "generic"] }

(***************************************************************************)
(* The registry: this.tools, a Map, as the sequence of its entries in      *)
(* insertion order.                                                        *)
(***************************************************************************)
Keys(map) == { map[i].name : i \in 1..Len(map) }
MapHas(map, name) == name \in Keys(map)
\* Map.get: the instance, or undefined (NoTool)
NoTool == [pid |-> "undefined", decl |-> "missing", exec |-> "missing"]
MapGet(map, name) ==
    IF MapHas(map, name)
    THEN (CHOOSE e \in { map[i] : i \in 1..Len(map) } : e.name = name).inst
    ELSE NoTool
\* Map.set: a new key is appended, an existing key keeps its place
MapSet(map, name, inst) ==
    IF MapHas(map, name)
    THEN [i \in 1..Len(map) |->
            IF map[i].name = name THEN [name |-> name, inst |-> inst] ELSE map[i]]
    ELSE Append(map, [name |-> name, inst |-> inst])

(***************************************************************************)
(* registerTool(name, toolInstance)                                        *)
(***************************************************************************)
\* registerTool with the first guard left out
AlreadyRegisteredNever(map, name) == FALSE

\* the first guard: this.tools.has(name)
AlreadyRegistered(map, name) == MapHas(map, name)

\* registerTool with the second guard cut down to !toolInstance
InvalidInstanceNullOnly(inst) == inst = NullInst

\* the second guard: !toolInstance || typeof toolInstance.getDeclaration !== 'function'
InvalidInstance(inst) == inst = NullInst \/ inst.decl = "missing"

\* the registry the call leaves
StoreTool(map, name, inst) == MapSet(map, name, inst)

\* registerTool with the first guard looking at the instance too: a key the
\* registry has is taken over by a different instance
registerToolTakeOver(map, name, inst) ==
    IF AlreadyRegistered(map, name) /\ MapGet(map, name) = inst
    THEN [result |-> "INVALID_STATE", tools |-> map]
    ELSE IF InvalidInstance(inst)
    THEN [result |-> "INVALID_PARAMETER", tools |-> map]
    ELSE [result |-> "ok", tools |-> StoreTool(map, name, inst)]

\* registerTool with this.tools.set moved above the second guard
registerToolStoreFirst(map, name, inst) ==
    IF AlreadyRegistered(map, name)
    THEN [result |-> "INVALID_STATE", tools |-> map]
    ELSE IF InvalidInstance(inst)
    THEN [result |-> "INVALID_PARAMETER", tools |-> StoreTool(map, name, inst)]
    ELSE [result |-> "ok", tools |-> StoreTool(map, name, inst)]

\* The call's outcome: what it throws (or "ok") and the registry it leaves.
registerTool(map, name, inst) ==
    IF AlreadyRegistered(map, name)
    THEN [result |-> "INVALID_STATE", tools |-> map]
    ELSE IF InvalidInstance(inst)
    THEN [result |-> "INVALID_PARAMETER", tools |-> map]
    ELSE [result |-> "ok", tools |-> StoreTool(map, name, inst)]

\* registerDefaultTools without its last line
registerDefaultToolsNoEmail(map) ==
    LET t1 == registerTool(map, "googleSearch", GoogleSearchToolInst).tools
    IN  registerTool(t1, "weather", WeatherToolInst).tools

\* constructor: new Map(), then registerDefaultTools
registerDefaultTools(map) ==
    LET t1 == registerTool(map, "googleSearch", GoogleSearchToolInst).tools
        t2 == registerTool(t1, "weather", WeatherToolInst).tools
    IN  registerTool(t2, "email", EmailToolInst).tools

(***************************************************************************)
(* getToolDeclarations()                                                   *)
(***************************************************************************)
\* tool.getDeclaration(): what the call does for each kind of instance.
\* Calling a property that is not a function throws a TypeError.
Describe(inst) ==
    CASE inst.decl = "object"    -> [threw |-> FALSE, value |-> [t |-> "declaration", n |-> 1]]
      [] inst.decl = "seq"       -> [threw |-> FALSE, value |-> [t |-> "array", n |-> 1]]
      [] inst.decl = "emptySeq"  -> [threw |-> FALSE, value |-> [t |-> "array", n |-> 0]]
      [] inst.decl = "undefined" -> [threw |-> FALSE, value |-> Undefined]
      [] inst.decl = "null"      -> [threw |-> FALSE, value |-> Null]
      [] OTHER                   -> [threw |-> TRUE, value |-> Undefined]

\* if (declaration): objects and arrays, the empty array too, are truthy
DeclarationKept(value) == ~Falsy(value)

\* the forEach callback without its try and catch
DeclarationStepNoCatch(acc, entry) ==
    LET d == Describe(entry.inst)
    IN  IF acc.raised THEN acc
        ELSE IF d.threw THEN [acc EXCEPT !.raised = TRUE]
        ELSE IF DeclarationKept(d.value)
        THEN [acc EXCEPT !.declarations =
                 Append(@, [name |-> entry.name, declaration |-> d.value])]
        ELSE acc

\* One turn of the forEach callback: its try, its if and its catch. acc is
\* [raised, declarations]; nothing is pushed once the loop has been left.
DeclarationStep(acc, entry) ==
    LET d == Describe(entry.inst)
    IN  IF acc.raised THEN acc
        ELSE IF d.threw THEN acc
        ELSE IF DeclarationKept(d.value)
        THEN [acc EXCEPT !.declarations =
                 Append(@, [name |-> entry.name, declaration |-> d.value])]
        ELSE acc

RECURSIVE ForEachTool(_, _)
ForEachTool(map, acc) ==
    IF map = << >> THEN acc
    ELSE ForEachTool(Tail(map), DeclarationStep(acc, Head(map)))

getToolDeclarations(map) ==
    ForEachTool(map, [raised |-> FALSE, declarations |-> << >>])

(***************************************************************************)
(* WeatherTool.execute(args)                                               *)
(***************************************************************************)
\* str.charCodeAt(i) for the strings of the model
CharCodes(s) ==
    CASE s = "Rome"       -> <<82, 111, 109, 101>>
      [] s = "2024-03-01" -> <<50, 48, 50, 52, 45, 48, 51, 45, 48, 49>>
      [] s = "2024-03-02" -> <<50, 48, 50, 52, 45, 48, 51, 45, 48, 50>>
      [] s = "undefined"  -> <<117, 110, 100, 101, 102, 105, 110, 101, 100>>
      [] s = "null"       -> <<110, 117, 108, 108>>
      [] OTHER            -> << >>

\* `${value}`: the string a template literal makes of a value
TemplateCodes(value) ==
    CASE value.t = "string"    -> CharCodes(value.v)
      [] value.t = "undefined" -> CharCodes("undefined")
      [] OTHER                 -> CharCodes("null")

\* Numbers of hashString are kept as the 32 bits << and & leave of them, in
\* two 16-bit halves: [hi, lo] stands for hi * 65536 + lo, and as a signed
\* 32-bit integer it is negative when hi >= 32768.
Half == 65536
Word(hi, lo) == [hi |-> hi % Half, lo |-> lo % Half]
Zero == Word(0, 0)

\* hash << 5
ShiftLeft5(w) == Word(w.hi * 32 + (w.lo * 32) \div Half, w.lo * 32)

\* a - b and a + char, as their 32 bits
Minus(a, b) ==
    LET borrow == IF a.lo < b.lo THEN 1 ELSE 0
    IN  Word(a.hi + Half - b.hi - borrow, a.lo + Half - b.lo)
Plus(a, char) == Word(a.hi + (a.lo + char) \div Half, a.lo + char)

IsNegative(w) == w.hi >= 32768

\* one turn of hashString's loop: ((hash << 5) - hash) + char; hash & hash
HashStep(hash, char) == Plus(Minus(ShiftLeft5(hash), hash), char)

\* the for loop over the characters; each turn works on the value the turn
\* before it left in hash
RECURSIVE HashLoop(_, _)
HashLoop(hash, codes) ==
    IF codes = << >> THEN hash
    ELSE CHOOSE result \in
            { HashLoop(h, rest) : h \in {HashStep(hash, Head(codes))}, rest \in {Tail(codes)} } :
            TRUE

\* A number that need not fit 32 bits: its sign, and its magnitude from 0 to
\* 2^32 - 1 in halves
Number(neg, w) == [neg |-> neg, hi |-> w.hi, lo |-> w.lo]

\* 0 - hash, as its 32 bits
Negated(w) == Word(Half - 1 - w.hi + (IF w.lo = 0 THEN 1 ELSE 0), Half - w.lo)

\* the absolute value taken in 32-bit arithmetic: 0 - hash wraps back to
\* -2^31 when hash is -2^31
MathAbsInt32(w) ==
    IF IsNegative(w) THEN Number(IsNegative(Negated(w)), Negated(w)) ELSE Number(FALSE, w)

\* Math.abs of the signed hash. Math.abs works on doubles: the result is the
\* magnitude, 2^31 for -2^31, and is not wrapped again
MathAbs(w) == Number(FALSE, IF IsNegative(w) THEN Negated(w) ELSE w)

hashString(codes) == MathAbs(HashLoop(Zero, codes))

\* seed % n: the remainder has the sign of seed
Mod(w, n) ==
    LET r == ((w.hi % n) * (Half % n) + (w.lo % n)) % n
    IN  IF w.neg THEN 0 - r ELSE r

weatherConditions ==
    << "sunny", "partly cloudy", "cloudy", "light rain", "heavy rain",
       "thunderstorm", "windy", "snow", "foggy" >>

temperatures(name) ==
    CASE name = "sunny"         -> [min |-> 20, max |-> 35]
      [] name = "partly cloudy" -> [min |-> 18, max |-> 30]
      [] name = "cloudy"        -> [min |-> 15, max |-> 25]
      [] name = "light rain"    -> [min |-> 12, max |-> 20]
      [] name = "heavy rain"    -> [min |-> 10, max |-> 18]
      [] name = "thunderstorm"  -> [min |-> 15, max |-> 25]
      [] name = "windy"         -> [min |-> 8,  max |-> 15]
      [] name = "snow"          -> [min |-> -5, max |-> 5]
      [] name = "foggy"         -> [min |-> 5,  max |-> 15]

\* args.name as destructuring reads it: undefined when the property is absent
Prop(args, name) == IF name \in DOMAIN args THEN args[name] ELSE Undefined

\* date || this.getCurrentDate(), with the date taken from the clock whatever
\* the arguments say
ForecastDateToday(date, today) == Str(today)

\* date || this.getCurrentDate()
ForecastDate(date, today) == IF Falsy(date) THEN Str(today) ELSE date

\* what reading an array at an index it does not have gives: undefined
NoCondition == "undefined"

\* weatherConditions[seed % weatherConditions.length]
Condition(seed) ==
    LET index == Mod(seed, Len(weatherConditions))
    IN  IF index \in 0..(Len(weatherConditions) - 1)
        THEN weatherConditions[index + 1]
        ELSE NoCondition

\* temp.min + (seed % (temp.max - temp.min))
CurrentTemp(seed, temp) == temp.min + Mod(seed, temp.max - temp.min)

\* What the promise of execute settles to: [kind, value, effects]. today is
\* what getCurrentDate returns. Destructuring null or undefined throws.
\* currentTemp is an integer, which Math.round leaves as it is.
WeatherExecute(args, today) ==
    IF ~CanReadProperty(args)
    THEN [kind |-> "reject", value |-> Err("Cannot destructure"), effects |-> << >>]
    ELSE
      LET location == Prop(args, "location")
          date == Prop(args, "date")
          forecastDate == ForecastDate(date, today)
          seed == hashString(TemplateCodes(location) \o TemplateCodes(forecastDate))
          condition == Condition(seed)
          temp == temperatures(condition)
          currentTemp == CurrentTemp(seed, temp)
      IN  IF condition = NoCondition
          \* temperatures[undefined] is undefined, and temp.min throws
          THEN [kind |-> "reject", value |-> Err("Cannot read properties of undefined"),
                effects |-> << >>]
          ELSE
          [kind |-> "resolve",
           value |-> [t |-> "object",
                      location |-> location,
                      date |-> forecastDate,
                      condition |-> condition,
                      temperature |-> currentTemp,
                      humidity |-> 40 + Mod(seed, 40),
                      windSpeed |-> 5 + Mod(seed, 25),
                      \* the sentence, as the values it is made of
                      forecast |-> [location |-> location, date |-> forecastDate,
                                    condition |-> condition,
                                    temperature |-> currentTemp]],
           effects |-> << >>]

\* The dates getCurrentDate may return while the model runs.
Todays == {"2024-03-01", "2024-03-02"}

(***************************************************************************)
(* EmailTool.execute(args)                                                 *)
(***************************************************************************)
\* What the plugin finds around it: CONFIG without an EMAIL section (as in
\* config.example.js), no credentials, a transport that fails with an Error
\* or with null, a transport that sends.
EmailEnvs == {"noEmailSection", "noCredentials", "sendFails", "sendFailsNull", "sendOk"}

\* execute with the credentials read before the arguments are looked at
EmailExecuteCredentialsFirst(args, env) ==
    IF ~CanReadProperty(args)
    THEN [kind |-> "reject", value |-> Err("Cannot destructure"), effects |-> << >>]
    ELSE IF env = "noEmailSection"
    THEN [kind |-> "reject", value |-> Err("Cannot read properties of undefined"),
          effects |-> <<"readCredentials">>]
    ELSE IF env = "noCredentials"
    THEN [kind |-> "reject", value |-> Err("Email credentials are not configured."),
          effects |-> <<"readCredentials">>]
    ELSE IF Falsy(Prop(args, "to")) \/ Falsy(Prop(args, "subject")) \/ Falsy(Prop(args, "body"))
    THEN [kind |-> "reject",
          value |-> Err("Missing required fields: to, subject, or body."),
          effects |-> <<"readCredentials", "validate">>]
    ELSE IF env = "sendFails"
    THEN [kind |-> "reject", value |-> Err("Failed to send email: refused"),
          effects |-> <<"readCredentials", "validate", "sendMail">>]
    ELSE IF env = "sendFailsNull"
    THEN [kind |-> "reject", value |-> Err("Cannot read properties of null"),
          effects |-> <<"readCredentials", "validate", "sendMail">>]
    ELSE [kind |-> "resolve", value |-> Str("Email sent successfully."),
          effects |-> <<"readCredentials", "validate", "sendMail">>]

EmailExecute(args, env) ==
    IF ~CanReadProperty(args)
    THEN [kind |-> "reject", value |-> Err("Cannot destructure"), effects |-> << >>]
    ELSE IF Falsy(Prop(args, "to")) \/ Falsy(Prop(args, "subject")) \/ Falsy(Prop(args, "body"))
    THEN [kind |-> "reject",
          value |-> Err("Missing required fields: to, subject, or body."),
          effects |-> <<"validate">>]
    ELSE IF env = "noEmailSection"
    THEN [kind |-> "reject", value |-> Err("Cannot read properties of undefined"),
          effects |-> <<"validate", "readCredentials">>]
    ELSE IF env = "noCredentials"
    THEN [kind |-> "reject", value |-> Err("Email credentials are not configured."),
          effects |-> <<"validate", "readCredentials">>]
    ELSE IF env = "sendFails"
    THEN [kind |-> "reject", value |-> Err("Failed to send email: refused"),
          effects |-> <<"validate", "readCredentials", "sendMail">>]
    ELSE IF env = "sendFailsNull"
    THEN [kind |-> "reject", value |-> Err("Cannot read properties of null"),
          effects |-> <<"validate", "readCredentials", "sendMail">>]
    ELSE [kind |-> "resolve", value |-> Str("Email sent successfully."),
          effects |-> <<"validate", "readCredentials", "sendMail">>]

\* required, in the declaration each of the two plugins hands out: the
\* fields of the argument bag the declaration lists as required
RequiredFields(pid) ==
    IF pid = "WeatherTool" THEN {"location"}
    ELSE IF pid = "EmailTool" THEN {"to", "subject", "body"}
    ELSE {}

(***************************************************************************)
(* handleToolCall(functionCall)                                            *)
(***************************************************************************)
\* The argument bags of the call requests.
ForecastArgs ==
    { [t |-> "object", location |-> Str("Rome"), date |-> Str("2024-03-01")],
      [t |-> "object", location |-> Str("Rome")] }
MailArgs ==
    { [t |-> "object", to |-> Str("a@b"), subject |-> Str("s"), body |-> Str("b")],
      [t |-> "object", to |-> Str(""), subject |-> Str("s"), body |-> Str("b")] }

CallIds == {"a", "b"}

Request(name, args, id) == [name |-> name, args |-> args, id |-> id]

\* the lookup under the name as it comes, the if and else if left out
ResolveKeyAsNamed(name) == name

\* "Find the tool by name": the key the name is looked up under
ResolveKey(name) ==
    IF name = "get_weather_on_date" THEN "weather"
    ELSE IF name = "sendEmail" THEN "email"
    ELSE name

\* the lookup done in a copy of the registry taken by the constructor
FindToolAtConstruction(map, name) ==
    MapGet(registerDefaultTools(<< >>), ResolveKey(name))

\* the lookup falling back on the search tool when the key is not there
FindToolOrDefault(map, name) ==
    IF MapHas(map, ResolveKey(name))
    THEN MapGet(map, ResolveKey(name))
    ELSE MapGet(map, "googleSearch")

FindTool(map, name) == MapGet(map, ResolveKey(name))

\* the entry both return statements build
Entry(response, id) == [response |-> response, id |-> id]
Envelope(response, id) == [functionResponses |-> << Entry(response, id) >>]

\* the return of the try block
SuccessReturn(result, id) ==
    [status |-> "returned", envelope |-> Envelope([output |-> result], id)]

\* the catch block: error.message is read before the envelope is built, and a
\* TypeError raised there leaves handleToolCall
CatchBlock(error, id) ==
    IF CanReadProperty(error)
    THEN [status |-> "returned", envelope |-> Envelope([error |-> MessageOf(error)], id)]
    ELSE [status |-> "rejected", failure |-> "TypeError"]

\* throw new ApplicationError(`Unknown tool: ...`, ErrorCodes.INVALID_PARAMETER)
UnknownTool == [status |-> "rejected", failure |-> "UnknownTool"]

\* What a plugin written by somebody else may do in execute: the values it
\* may return or resolve to, and the values it may throw or reject with.
GenericResults == {Undefined, Null, Str("done")}
GenericThrows == {Err("boom"), Str("boom"), PlainObject, Null, Undefined}

\* tool.execute(args), the call itself: it throws at once, or it hands back
\* something to await. A property that is not a function cannot be called.
SyncOutcomes(tool) ==
    IF tool.exec = "missing"
    THEN { [kind |-> "throw", value |-> Err("tool.execute is not a function"), called |-> FALSE] }
    ELSE IF tool.exec \in {"generic", "search"}
    THEN { [kind |-> "throw", value |-> v, called |-> TRUE] : v \in GenericThrows }
         \cup { [kind |-> "await", value |-> Undefined, called |-> TRUE] }
    ELSE { [kind |-> "await", value |-> Undefined, called |-> TRUE] }

\* What the awaited promise may settle to, and what the plugin did meanwhile.
SettleOutcomes(call) ==
    CASE call.tool.exec = "weather" ->
            { WeatherExecute(call.req.args, d) : d \in Todays }
      [] call.tool.exec = "email" ->
            { EmailExecute(call.req.args, e) : e \in EmailEnvs }
      [] OTHER ->
            { [kind |-> "resolve", value |-> v, effects |-> << >>] : v \in GenericResults }
            \cup { [kind |-> "reject", value |-> v, effects |-> << >>] : v \in GenericThrows }

\* the invocations of execute one handleToolCall has made
Invocation(tool, args) == [pid |-> tool.pid, args |-> args]

\* how the call of execute ended when no tool was found to call
NotCalled == [kind |-> "none", value |-> Undefined]

\* What last holds once a handleToolCall has finished: the request, the tool
\* found, the invocations of execute, how execute ended (exec), what the plugin
\* did meanwhile and how handleToolCall itself ended (out).
Finished(req, key, tool, invoked, exec, effects, out) ==
    [op |-> "dispatch", req |-> req, key |-> key, tool |-> tool,
     invoked |-> invoked, exec |-> exec, effects |-> effects, out |-> out,
     before |-> tools]

(***************************************************************************)
(* The state machine.                                                      *)
(***************************************************************************)
Init ==
    /\ tools = registerDefaultTools(<< >>)
    /\ inflight = << >>
    /\ last = [op |-> "constructor"]
    /\ racers = << >>
    /\ forecasts = {}

\* registerTool(name, inst), called by whoever holds the manager
RegisterTool(name, inst) ==
    LET r == registerTool(tools, name, inst)
    IN  /\ tools' = r.tools
        /\ last' = [op |-> "register", name |-> name, inst |-> inst,
                    result |-> r.result, before |-> tools]
        /\ UNCHANGED inflight

\* getToolDeclarations()
GetToolDeclarations ==
    LET r == getToolDeclarations(tools)
    IN  /\ last' = [op |-> "list", raised |-> r.raised,
                    declarations |-> r.declarations, before |-> tools]
        /\ UNCHANGED <<tools, inflight>>

\* handleToolCall(req) up to its await: the lookup, the unknown-tool throw, the
\* call of execute and, when that call throws at once, the catch block.
HandleToolCall(req) ==
    LET key == ResolveKey(req.name)
        tool == FindTool(tools, req.name)
    IN  IF tool = NoTool
        THEN /\ last' = Finished(req, key, tool, << >>, NotCalled, << >>, UnknownTool)
             /\ UNCHANGED <<tools, inflight>>
        ELSE \E s \in SyncOutcomes(tool) :
               LET invoked == IF s.called THEN << Invocation(tool, req.args) >> ELSE << >>
               IN  IF s.kind = "throw"
                   THEN /\ last' = Finished(req, key, tool, invoked,
                                            [kind |-> s.kind, value |-> s.value], << >>,
                                            CatchBlock(s.value, req.id))
                        /\ UNCHANGED <<tools, inflight>>
                   ELSE /\ Len(inflight) < MaxInflight
                        /\ inflight' = Append(inflight,
                               [req |-> req, key |-> key, tool |-> tool, invoked |-> invoked])
                        /\ UNCHANGED <<tools, last>>

Remove(seq, i) == SubSeq(seq, 1, i - 1) \o SubSeq(seq, i + 1, Len(seq))

\* handleToolCall keeping the request in a field of the manager, which the
\* call suspended first has set: the entry gets that request's id
ResumeToolCallSharedRequest(i) ==
    LET call == inflight[i]
        shared == inflight[1].req
    IN  \E o \in SettleOutcomes(call) :
          /\ last' = Finished(call.req, call.key, call.tool, call.invoked,
                              [kind |-> o.kind, value |-> o.value], o.effects,
                              IF o.kind = "resolve"
                              THEN SuccessReturn(o.value, shared.id)
                              ELSE CatchBlock(o.value, shared.id))
          /\ inflight' = Remove(inflight, i)
          /\ UNCHANGED tools

\* handleToolCall after its await: the promise of execute has settled
ResumeToolCall(i) ==
    LET call == inflight[i]
    IN  \E o \in SettleOutcomes(call) :
          /\ last' = Finished(call.req, call.key, call.tool, call.invoked,
                              [kind |-> o.kind, value |-> o.value], o.effects,
                              IF o.kind = "resolve"
                              THEN SuccessReturn(o.value, call.req.id)
                              ELSE CatchBlock(o.value, call.req.id))
          /\ inflight' = Remove(inflight, i)
          /\ UNCHANGED tools

(***************************************************************************)
(* Spec: the manager under dispatch. Callers register under a built-in key *)
(* and under one new key, and send every kind of call request.             *)
(***************************************************************************)
ToolNames == {"weather", "custom"}
ToolInsts == {GoodInst, NoExecuteInst, NullInst}

Requests ==
    { Request("get_weather_on_date", a, "a") : a \in ForecastArgs \cup {Undefined} }
    \cup { Request("sendEmail", a, "b") : a \in MailArgs }
    \cup { Request(n, a, i) :
              n \in {"weather", "custom", "nosuch"},
              a \in {[t |-> "object", location |-> Str("Rome")]},
              i \in CallIds }

Next ==
    \/ \E name \in ToolNames, inst \in ToolInsts :
          RegisterTool(name, inst) /\ UNCHANGED callers
    \/ GetToolDeclarations /\ UNCHANGED callers
    \/ \E req \in Requests : HandleToolCall(req) /\ UNCHANGED callers
    \/ \E i \in 1..Len(inflight) : ResumeToolCall(i) /\ UNCHANGED callers

Spec == Init /\ [][Next]_vars

(***************************************************************************)
(* SpecRegistry: the manager under registration. Callers register every    *)
(* kind of instance under a built-in key, a new key and an alias name, and *)
(* send a few call requests.                                               *)
(***************************************************************************)
RegistryNames == {"weather", "custom", "sendEmail"}
RegistryInsts == DynamicInsts \cup {NullInst}

RegistryRequests ==
    { Request("custom", Undefined, "a"),
      Request("sendEmail", Undefined, "b"),
      Request("nosuch", Undefined, "a") }

NextRegistry ==
    \/ \E name \in RegistryNames, inst \in RegistryInsts :
          RegisterTool(name, inst) /\ UNCHANGED callers
    \/ GetToolDeclarations /\ UNCHANGED callers
    \/ \E req \in RegistryRequests : HandleToolCall(req) /\ UNCHANGED callers
    \/ \E i \in 1..Len(inflight) : ResumeToolCall(i) /\ UNCHANGED callers

SpecRegistry == Init /\ [][NextRegistry]_vars

(***************************************************************************)
(* SpecConcurrent: two callers race to register the same new key while     *)
(* other callers register, list and send call requests, some of which stay *)
(* suspended at their await. registerTool has no await: each call of it    *)
(* runs from its first guard to its return in one turn of the event loop,  *)
(* and the turns of the two callers may come in either order.              *)
(***************************************************************************)
RaceKey == "plugin"
RaceInsts == {GoodInst, NoExecuteInst}

\* A caller's registerTool call: what it passes and how the call ended,
\* "pending" while the caller has not made it.
Racer(inst) == [name |-> RaceKey, inst |-> inst, result |-> "pending"]

InitConcurrent ==
    /\ tools = registerDefaultTools(<< >>)
    /\ inflight = << >>
    /\ last = [op |-> "constructor"]
    /\ racers \in { << Racer(p), Racer(q) >> : p \in RaceInsts, q \in RaceInsts }
    /\ forecasts = {}

\* caller r makes its registerTool call and keeps how it ended
RacerRegisters(r) ==
    /\ racers[r].result = "pending"
    /\ RegisterTool(racers[r].name, racers[r].inst)
    /\ racers' = [racers EXCEPT ![r].result = last'.result]
    /\ UNCHANGED forecasts

\* what the callers outside the race register, and the requests sent
ConcurrentNames == {"weather", "other"}
ConcurrentInsts == {GoodInst}

ConcurrentRequests ==
    { Request(RaceKey, [t |-> "object", location |-> Str("Rome")], "a"),
      Request(RaceKey, Undefined, "b"),
      Request("get_weather_on_date",
              [t |-> "object", location |-> Str("Rome"), date |-> Str("2024-03-01")], "a"),
      Request("get_weather_on_date",
              [t |-> "object", location |-> Str("Rome"), date |-> Str("2024-03-02")], "b"),
      Request("nosuch", Undefined, "a") }

NextConcurrent ==
    \/ \E r \in DOMAIN racers : RacerRegisters(r)
    \/ \E name \in ConcurrentNames, inst \in ConcurrentInsts :
          RegisterTool(name, inst) /\ UNCHANGED callers
    \/ GetToolDeclarations /\ UNCHANGED callers
    \/ \E req \in ConcurrentRequests : HandleToolCall(req) /\ UNCHANGED callers
    \/ \E i \in 1..Len(inflight) : ResumeToolCall(i) /\ UNCHANGED callers

SpecConcurrent == InitConcurrent /\ [][NextConcurrent]_vars

(***************************************************************************)
(* SpecMail: EmailTool under every shape of argument bag: fields there,    *)
(* empty, null and absent.                                                 *)
(***************************************************************************)
PluginMailArgs ==
    { [t |-> "object", to |-> Str("a@b"), subject |-> Str("s"), body |-> Str("b")],
      [t |-> "object", to |-> Str(""), subject |-> Str("s"), body |-> Str("b")],
      [t |-> "object", to |-> Str("a@b"), body |-> Str("b")],
      [t |-> "object", to |-> Str("a@b"), subject |-> Str("s"), body |-> Null],
      [t |-> "object"] }

MailRequests ==
    { Request("sendEmail", a, i) : a \in PluginMailArgs, i \in CallIds }

MailNames == {"sendEmail", "email"}
MailInsts == {GoodInst}

NextMail ==
    \/ \E name \in MailNames, inst \in MailInsts :
          RegisterTool(name, inst) /\ UNCHANGED callers
    \/ GetToolDeclarations /\ UNCHANGED callers
    \/ \E req \in MailRequests : HandleToolCall(req) /\ UNCHANGED callers
    \/ \E i \in 1..Len(inflight) : ResumeToolCall(i) /\ UNCHANGED callers

SpecMail == Init /\ [][NextMail]_vars

(***************************************************************************)
(* SpecForecast: WeatherTool under argument bags with and without location *)
(* and date. The callers keep the forecasts they are handed, and register  *)
(* under the alias name and under the built-in key meanwhile.              *)
(***************************************************************************)
PluginForecastArgs ==
    { [t |-> "object", location |-> Str("Rome"), date |-> Str("2024-03-01")],
      [t |-> "object", location |-> Str("Rome")],
      [t |-> "object", date |-> Str("2024-03-01")] }

ForecastRequests ==
    { Request("get_weather_on_date", a, "a") : a \in PluginForecastArgs }
    \cup { Request("get_weather_on_date",
                   [t |-> "object", location |-> Str("Rome"), date |-> Str("2024-03-01")],
                   "b") }

ForecastNames == {"get_weather_on_date", "weather"}
ForecastInsts == {GoodInst}

\* what a caller keeps of a finished handleToolCall: the forecast of a
\* get_weather_on_date request, with the arguments and id it was asked with
Kept(finished) ==
    IF /\ finished.op = "dispatch"
       /\ finished.req.name = "get_weather_on_date"
       /\ finished.out.status = "returned"
       /\ "output" \in DOMAIN finished.out.envelope.functionResponses[1].response
    THEN { [args |-> finished.req.args, id |-> finished.req.id,
            output |-> finished.out.envelope.functionResponses[1].response.output] }
    ELSE {}

NextForecast ==
    \/ \E name \in ForecastNames, inst \in ForecastInsts :
          RegisterTool(name, inst) /\ UNCHANGED callers
    \/ GetToolDeclarations /\ UNCHANGED callers
    \/ \E req \in ForecastRequests : HandleToolCall(req) /\ UNCHANGED callers
    \/ \E i \in 1..Len(inflight) :
          /\ ResumeToolCall(i)
          /\ forecasts' = forecasts \cup Kept(last')
          /\ UNCHANGED racers

SpecForecast == Init /\ [][NextForecast]_vars

(***************************************************************************)
(* SpecBuiltIns: the tools the constructor registers. Callers register     *)
(* again under each of the three built-in keys and under a new key, and    *)
(* send call requests under the three keys and the two alias names.        *)
(***************************************************************************)
BuiltInKeys == {"googleSearch", "weather", "email"}
BuiltInNames == BuiltInKeys \cup {"custom"}
BuiltInInsts == {GoodInst, NullInst}

BuiltInRequests ==
    { Request(n, [t |-> "object", location |-> Str("Rome")], "a") :
        n \in BuiltInKeys \cup {"get_weather_on_date", "sendEmail"} }

NextBuiltIns ==
    \/ \E name \in BuiltInNames, inst \in BuiltInInsts :
          RegisterTool(name, inst) /\ UNCHANGED callers
    \/ GetToolDeclarations /\ UNCHANGED callers
    \/ \E req \in BuiltInRequests : HandleToolCall(req) /\ UNCHANGED callers
    \/ \E i \in 1..Len(inflight) : ResumeToolCall(i) /\ UNCHANGED callers

SpecBuiltIns == Init /\ [][NextBuiltIns]_vars

(***************************************************************************)
(* SpecLive: call requests whose promise of execute settles in the end.    *)
(* The event loop runs the continuation of an await once its promise has   *)
(* settled, so a suspended handleToolCall whose promise settles is         *)
(* resumed: weak fairness of ResumeToolCall at each place of the suspended *)
(* calls. Nothing is asked of the callers: they may stop calling.          *)
(***************************************************************************)
LiveNames == {RaceKey}
LiveInsts == {GoodInst}

LiveRequests ==
    { Request(RaceKey, Undefined, "a"),
      Request("sendEmail",
              [t |-> "object", to |-> Str("a@b"), subject |-> Str("s"), body |-> Str("b")],
              "b"),
      Request("nosuch", Undefined, "a") }

Resumes(i) == i \in 1..Len(inflight) /\ ResumeToolCall(i) /\ UNCHANGED callers

NextLive ==
    \/ \E name \in LiveNames, inst \in LiveInsts :
          RegisterTool(name, inst) /\ UNCHANGED callers
    \/ GetToolDeclarations /\ UNCHANGED callers
    \/ \E req \in LiveRequests : HandleToolCall(req) /\ UNCHANGED callers
    \/ \E i \in 1..Len(inflight) : Resumes(i)

SpecLive ==
    /\ Init
    /\ [][NextLive]_vars
    /\ \A i \in 1..(MaxInflight + 1) : WF_vars(Resumes(i))

(***************************************************************************)
(* SpecHash: hashString and what execute makes of the seed, applied to the *)
(* strings made of one of a few beginnings and up to MaxHashLen more       *)
(* characters. "afihotwu" followed by "az" is a string whose running hash  *)
(* wraps to -2^31; with the other endings the hash lies on either side of  *)
(* the sign change.                                                        *)
(***************************************************************************)
MaxHashLen == 3

\* char codes of "0", "a", "z" and of the euro sign
HashAlphabet == {48, 97, 122, 8364}

HashPrefixes ==
    { << >>,
      \* "afihotwu"
      << 97, 102, 105, 104, 111, 116, 119, 117 >>,
      CharCodes("Rome") }

Endings == UNION { [1..n -> HashAlphabet] : n \in 0..MaxHashLen }

HashInputs == { prefix \o ending : prefix \in HashPrefixes, ending \in Endings }

InitHash ==
    /\ tools = registerDefaultTools(<< >>)
    /\ inflight = << >>
    /\ last \in { [op |-> "string", str |-> codes] : codes \in HashInputs }
    /\ racers = << >>
    /\ forecasts = {}

\* hashString(str), and lines 76 to 80 of execute on the seed it returns
ApplyHash ==
    /\ last.op = "string"
    /\ LET seed == hashString(last.str)
           condition == Condition(seed)
       IN  last' = [op |-> "hashString", str |-> last.str,
                    wrapped |-> HashLoop(Zero, last.str),
                    seed |-> seed,
                    condition |-> condition,
                    temperature |->
                        IF condition = NoCondition THEN 0
                        ELSE CurrentTemp(seed, temperatures(condition))]
    /\ UNCHANGED <<tools, inflight, racers, forecasts>>

NextHash == ApplyHash

SpecHash == InitHash /\ [][NextHash]_vars

(***************************************************************************)
(* SpecAlias: callers register under the two alias names and under a new   *)
(* key, and send call requests under these three names.                    *)
(***************************************************************************)
AliasKeys == {"get_weather_on_date", "sendEmail", "custom"}
AliasInsts == {GoodInst, NoExecuteInst}

AliasRequests ==
    { Request(n, [t |-> "object", location |-> Str("Rome"), date |-> Str("2024-03-01")], "a") :
        n \in AliasKeys }

NextAlias ==
    \/ \E name \in AliasKeys, inst \in AliasInsts :
          RegisterTool(name, inst) /\ UNCHANGED callers
    \/ GetToolDeclarations /\ UNCHANGED callers
    \/ \E req \in AliasRequests : HandleToolCall(req) /\ UNCHANGED callers
    \/ \E i \in 1..Len(inflight) : ResumeToolCall(i) /\ UNCHANGED callers

SpecAlias == Init /\ [][NextAlias]_vars

(***************************************************************************)
(* The claims. last holds the operation that finished last, with the       *)
(* registry it found (before), so a state predicate on last speaks of      *)
(* every finished operation.                                               *)
(***************************************************************************)
DispatchFinished == last.op = "dispatch"
AliasNames == {"get_weather_on_date", "sendEmail"}
Entries == last.out.envelope.functionResponses

\* an outcome field is populated when the response has it with a value
Populated(response, field) ==
    field \in DOMAIN response /\ response[field] # Undefined

\* C1: whenever the request resolved to a registered tool and execute failed
\* (a throw, a rejection, a missing execute), handleToolCall returns an
\* envelope whose single entry has the request's id and an error outcome.
C1_FailureIsolation ==
    (DispatchFinished /\ last.tool # NoTool /\ last.exec.kind \in {"throw", "reject"})
    => /\ last.out.status = "returned"
       /\ Len(Entries) = 1
       /\ Entries[1].id = last.req.id
       /\ DOMAIN Entries[1].response = {"error"}

\* C2: a request whose name is no alias name and no key of the registry ends
\* with the unknown-tool failure, without an envelope and without any call of
\* execute.
C2_UnknownTool ==
    (DispatchFinished /\ last.req.name \notin AliasNames
        /\ last.req.name \notin Keys(last.before))
    => /\ last.out.status = "rejected"
       /\ last.out.failure = "UnknownTool"
       /\ "envelope" \notin DOMAIN last.out
       /\ last.invoked = << >>

C2_Witness ==
    /\ DispatchFinished
    /\ last.req.name = "nosuch"
    /\ "custom" \in Keys(last.before)
    /\ last.out.status = "rejected"

\* C3: every envelope handleToolCall returns has exactly one entry, with the
\* request's id and exactly one of output and error populated.
C3_EnvelopeShape ==
    (DispatchFinished /\ last.out.status = "returned")
    => /\ Len(Entries) = 1
       /\ Entries[1].id = last.req.id
       /\ Populated(Entries[1].response, "output")
            # Populated(Entries[1].response, "error")

\* C4: a request that finds a tool makes exactly one call of execute, with
\* the request's args, on the tool under "weather" for get_weather_on_date,
\* under "email" for sendEmail and under the request's name otherwise.
C4_AliasResolution ==
    (DispatchFinished /\ last.tool # NoTool)
    => LET expected ==
               IF last.req.name = "get_weather_on_date" THEN WeatherToolInst
               ELSE IF last.req.name = "sendEmail" THEN EmailToolInst
               ELSE MapGet(last.before, last.req.name)
       IN  last.invoked = << [pid |-> expected.pid, args |-> last.req.args] >>

\* C5: registerTool under a key the registry has fails with the conflict
\* error and leaves the registry as it was, the first instance included.
C5_DuplicateRejected ==
    (last.op = "register" /\ last.name \in Keys(last.before))
    => /\ last.result = "INVALID_STATE"
       /\ tools = last.before

C5_Witness ==
    /\ last.op = "register"
    /\ last.name = "custom"
    /\ last.result = "INVALID_STATE"
    /\ ~InvalidInstance(last.inst)
    /\ MapGet(tools, "custom") # last.inst

\* C6: registerTool under a new key with null or with an object without
\* getDeclaration fails with the invalid-instance error and leaves the
\* registry as it was.
C6_InvalidRejected ==
    (last.op = "register" /\ last.name \notin Keys(last.before)
        /\ (last.inst = NullInst \/ last.inst.decl = "missing"))
    => /\ last.result = "INVALID_PARAMETER"
       /\ tools = last.before

C6_Witness ==
    /\ last.op = "register"
    /\ last.name = "custom"
    /\ last.inst # NullInst
    /\ last.inst.decl = "missing"
    /\ last.result = "INVALID_PARAMETER"
    /\ "custom" \notin Keys(tools)

\* C7: every instance in the registry has both getDeclaration and execute,
\* and registerTool turns down an instance without execute.
C7_FullContract ==
    /\ \A i \in 1..Len(tools) :
          tools[i].inst.decl # "missing" /\ tools[i].inst.exec # "missing"
    /\ (last.op = "register" /\ last.inst.exec = "missing")
          => (last.result # "ok" /\ tools = last.before)

\* C8: getToolDeclarations never raises, and on a registry whose tools each
\* throw in getDeclaration or return a non-empty declaration it returns one
\* (name, declaration) pair for each tool that does not throw, in the order
\* of registration: N - k pairs.
C8_AggregationIsolation ==
    (last.op = "list")
    => /\ ~last.raised
       /\ (\A i \in 1..Len(last.before) :
              last.before[i].inst.decl \in {"throws", "object", "seq"})
          => LET kept == SelectSeq(last.before, LAMBDA e : e.inst.decl # "throws")
                 k == Cardinality({ i \in 1..Len(last.before) :
                                      last.before[i].inst.decl = "throws" })
             IN  /\ Len(last.declarations) = Len(last.before) - k
                 /\ Len(last.declarations) = Len(kept)
                 /\ \A j \in 1..Len(kept) :
                       /\ last.declarations[j].name = kept[j].name
                       /\ last.declarations[j].declaration = Describe(kept[j].inst).value

C8_Witness ==
    /\ last.op = "list"
    /\ Len(last.before) = 5
    /\ last.before[4].inst.decl = "throws"
    /\ last.before[5].inst.decl = "object"
    /\ Len(last.declarations) = 4

\* C9: a tool whose getDeclaration returns nothing, null or an empty array is
\* left out of what getToolDeclarations returns, the other tools are all
\* there, and the call does not raise.
C9_EmptyOmitted ==
    (last.op = "list")
    => /\ ~last.raised
       /\ \A i \in 1..Len(last.before) :
             LET e == last.before[i]
                 listed == \E j \in 1..Len(last.declarations) :
                              last.declarations[j].name = e.name
             IN  /\ e.inst.decl \in {"undefined", "null", "emptySeq"} => ~listed
                 /\ e.inst.decl \in {"object", "seq"} => listed

\* C10: the registry changes only by a registerTool that succeeds, which
\* appends one entry under a key that was not there; every other step leaves
\* it as it was.
C10_AppendOnly ==
    [][ tools' # tools
          => /\ last'.op = "register"
             /\ last'.result = "ok"
             /\ last'.name \notin Keys(tools)
             /\ tools' = Append(tools, [name |-> last'.name, inst |-> last'.inst]) ]_vars

C10_Witness ==
    /\ last.op = "register"
    /\ last.result = "ok"
    /\ Len(tools) = 5
    /\ tools = Append(last.before, [name |-> last.name, inst |-> last.inst])

\* C11: of two registerTool calls two callers make for the same new key, in
\* either order and with call requests suspended meanwhile, exactly one
\* ends well and the other ends with the conflict error, and the registry
\* holds the instance of the call that ended well.
Winners == { r \in DOMAIN racers : racers[r].result = "ok" }
RaceOver == racers # << >> /\ \A r \in DOMAIN racers : racers[r].result # "pending"

C11_RegistrationRace ==
    /\ Cardinality(Winners) <= 1
    /\ \A r \in Winners : MapGet(tools, RaceKey) = racers[r].inst
    /\ \A r \in DOMAIN racers :
          racers[r].result \notin {"pending", "ok"}
          => racers[r].result = "INVALID_STATE" /\ Winners # {}
    /\ RaceOver => Cardinality(Winners) = 1

C11_Witness ==
    /\ RaceOver
    /\ racers[2].result = "ok"
    /\ racers[1].result = "INVALID_STATE"
    /\ racers[1].inst # racers[2].inst
    /\ MapGet(tools, RaceKey) = racers[2].inst
    /\ Len(inflight) > 0

\* C12: what a registerTool call that ended well stored is read by every
\* later operation: a call request under that name (no alias name) finds
\* that instance and does not end as unknown tool, whether it is suspended
\* or finished, and getToolDeclarations lists the instance's declaration;
\* call requests suspended meanwhile change nothing of it.
C12_ReadAfterWrite ==
    /\ (last.op = "register" /\ last.result = "ok")
          => MapGet(tools, last.name) = last.inst
    /\ \A i \in 1..Len(inflight) :
          inflight[i].req.name \notin AliasNames
          => /\ inflight[i].tool # NoTool
             /\ inflight[i].tool = MapGet(tools, inflight[i].req.name)
    /\ (DispatchFinished /\ last.req.name \notin AliasNames
            /\ last.req.name \in Keys(last.before))
          => /\ last.tool = MapGet(last.before, last.req.name)
             /\ last.out # UnknownTool
    /\ (last.op = "list")
          => \A i \in 1..Len(last.before) :
                last.before[i].inst.decl \in {"object", "seq"}
                => \E j \in 1..Len(last.declarations) :
                      /\ last.declarations[j].name = last.before[i].name
                      /\ last.declarations[j].declaration
                            = Describe(last.before[i].inst).value

C12_Witness ==
    /\ DispatchFinished
    /\ last.req.name = RaceKey
    /\ Winners # {}
    /\ \A r \in Winners : last.tool = racers[r].inst
    /\ last.out.status = "returned"
    /\ last.exec.kind = "resolve"
    /\ Len(inflight) > 0

\* C13: a sendEmail request whose to, subject or body is absent, null or
\* empty returns an envelope whose one entry holds an error, and EmailTool
\* stops at its check of the arguments: no credentials read, no mail sent.
MailFieldMissing(args) ==
    Falsy(Prop(args, "to")) \/ Falsy(Prop(args, "subject")) \/ Falsy(Prop(args, "body"))

C14_RequiredValidated ==
    (DispatchFinished /\ last.tool \in {WeatherToolInst, EmailToolInst}
        /\ CanReadProperty(last.req.args)
        /\ \E f \in RequiredFields(last.tool.pid) : f \notin DOMAIN last.req.args)
    => /\ last.exec.kind = "reject"
       /\ last.out.status = "returned"
       /\ DOMAIN Entries[1].response = {"error"}

\* the two forecasts agree in what the claim compares
SameForecast(f, g) ==
    /\ f.output.condition = g.output.condition
    /\ f.output.temperature = g.output.temperature
\* the forecast names the location and the date of its arguments
AsSupplied(f) ==
    /\ f.output.location = Prop(f.args, "location")
    /\ f.output.date = Prop(f.args, "date")

\* C15, as claimed: any two get_weather_on_date requests with the same
\* location and date arguments, whatever their ids and whatever was
\* registered or sent around them, return the same condition and
\* temperature, with the location and the date of the arguments.
C15_Determinism ==
    \A f \in forecasts, g \in forecasts :
        f.args = g.args => SameForecast(f, g) /\ AsSupplied(f)

\* C15, amended: two get_weather_on_date requests with the same location
\* and the same date, the date being given, return the same condition and
\* temperature with the location and date of the arguments; a request
\* without a date is answered for the current day, and any two forecasts for
\* the same location and the same day are the same.
C15_DeterminismDated ==
    \A f \in forecasts, g \in forecasts :
        /\ (f.args = g.args /\ ~Falsy(Prop(f.args, "date")))
              => SameForecast(f, g) /\ AsSupplied(f)
        /\ (Prop(f.args, "location") = Prop(g.args, "location")
                /\ f.output.date = g.output.date)
              => SameForecast(f, g)
        /\ f.output.location = Prop(f.args, "location")
        /\ Falsy(Prop(f.args, "date")) => f.output.date \in { Str(d) : d \in Todays }

C15_Witness ==
    /\ "get_weather_on_date" \in Keys(tools)
    /\ Len(inflight) > 0
    /\ \E f \in forecasts, g \in forecasts :
          /\ f.id = "a" /\ g.id = "b"
          /\ f.args = g.args
          /\ f.args = [t |-> "object", location |-> Str("Rome"), date |-> Str("2024-03-01")]
          /\ f.output = g.output
          /\ f.output.condition = "foggy"
          /\ f.output.temperature = 14

\* C16: the constructor leaves the registry with exactly the keys
\* googleSearch, weather and email, once each; they stay, so no call request
\* named get_weather_on_date, sendEmail, weather, email or googleSearch ends
\* as unknown tool, and registerTool under any of the three keys ends with
\* the conflict error.
Seeded ==
    << [name |-> "googleSearch", inst |-> GoogleSearchToolInst],
       [name |-> "weather", inst |-> WeatherToolInst],
       [name |-> "email", inst |-> EmailToolInst] >>

C16_BuiltInsSeeded ==
    /\ (last.op = "constructor") => tools = Seeded
    /\ Len(tools) >= 3 /\ SubSeq(tools, 1, 3) = Seeded
    /\ \A i \in 4..Len(tools) : tools[i].name \notin BuiltInKeys
    /\ (DispatchFinished /\ last.req.name \in BuiltInKeys \cup AliasNames)
          => /\ last.out # UnknownTool
             /\ last.tool = MapGet(Seeded, last.key)
             /\ last.invoked # << >>
    /\ (last.op = "register" /\ last.name \in BuiltInKeys)
          => last.result = "INVALID_STATE" /\ tools = last.before

C16_Witness ==
    /\ last.op = "register"
    /\ last.name = "email"
    /\ last.inst = GoodInst
    /\ last.result = "INVALID_STATE"
    /\ "custom" \in Keys(tools)
    /\ Len(inflight) = 2
    /\ inflight[1].req.name = "googleSearch"
    /\ inflight[2].req.name = "sendEmail"
    /\ inflight[2].tool = EmailToolInst

\* C17: with several handleToolCall running, each envelope returned holds
\* the id of its own request and what its own call of execute, made with
\* its own args, ended with; a suspended call keeps its own request and
\* tool, and whatever the other calls do (fail, stay suspended for ever)
\* each suspended call can go on as soon as its own promise settles.
OwnOutcome(finished) ==
    LET entry == finished.out.envelope.functionResponses[1]
    IN  /\ entry.id = finished.req.id
        /\ finished.invoked = << Invocation(finished.tool, finished.req.args) >>
        /\ entry.response =
              IF finished.exec.kind = "resolve"
              THEN [output |-> finished.exec.value]
              ELSE [error |-> MessageOf(finished.exec.value)]
        /\ (finished.tool = WeatherToolInst /\ finished.exec.kind = "resolve")
              => /\ entry.response.output.location = Prop(finished.req.args, "location")
                 /\ entry.response.output.date = Prop(finished.req.args, "date")

C17_InflightIsolation ==
    /\ (DispatchFinished /\ last.out.status = "returned" /\ last.invoked # << >>)
          => OwnOutcome(last)
    /\ \A i \in 1..Len(inflight) :
          /\ inflight[i].tool = FindTool(tools, inflight[i].req.name)
          /\ inflight[i].invoked = << Invocation(inflight[i].tool, inflight[i].req.args) >>
          \* ResumeToolCall(i) can be taken: it asks for nothing but an
          \* outcome of the call's own promise
          /\ SettleOutcomes(inflight[i]) # {}

C17_Witness ==
    /\ DispatchFinished
    /\ last.req = Request("get_weather_on_date",
                          [t |-> "object", location |-> Str("Rome"),
                           date |-> Str("2024-03-02")], "b")
    /\ last.out.status = "returned"
    /\ Entries[1].id = "b"
    /\ Entries[1].response.output.date = Str("2024-03-02")
    /\ Len(inflight) = 1
    /\ inflight[1].req.id = "a"
    /\ inflight[1].req.name = RaceKey

\* C18: every handleToolCall whose call of execute settles finishes, and
\* finishes with an envelope or with the unknown-tool failure thrown before
\* any call of execute; there is no timeout, so nothing but the settling of
\* its promise takes a call out of its await.
C18_Completion ==
    (DispatchFinished /\ last.exec.kind \in {"none", "resolve", "reject"})
    => \/ last.out.status = "returned"
       \/ last.out = UnknownTool /\ last.invoked = << >>

\* the parts of C18 that do not depend on how the call finishes: a suspended
\* call whose promise settles finishes, and a call leaves its await only by
\* finishing
C18_EventuallyFinishes ==
    \A req \in LiveRequests :
        (\E i \in 1..Len(inflight) : inflight[i].req = req)
        ~> (DispatchFinished /\ last.req = req /\ last.exec.kind \in {"resolve", "reject"})

C18_NoTimeout ==
    [][ (Len(inflight') < Len(inflight))
          => /\ last'.op = "dispatch"
             /\ last'.exec.kind \in {"resolve", "reject"}
             /\ \E i \in 1..Len(inflight) :
                   /\ inflight[i].req = last'.req
                   /\ inflight' = Remove(inflight, i) ]_vars

\* The running hash worked out another way: hash * 31 + char on the four
\* bytes of hash, lowest first, the carry out of the highest byte dropped.
TimesThirtyOnePlus(bytes, char) ==
    LET t1 == bytes[1] * 31 + char
        t2 == bytes[2] * 31 + t1 \div 256
        t3 == bytes[3] * 31 + t2 \div 256
        t4 == bytes[4] * 31 + t3 \div 256
    IN  << t1 % 256, t2 % 256, t3 % 256, t4 % 256 >>

RECURSIVE RunningHash(_, _)
RunningHash(bytes, codes) ==
    IF codes = << >> THEN bytes
    ELSE RunningHash(TimesThirtyOnePlus(bytes, Head(codes)), Tail(codes))

\* seed is the absolute value of the signed 32-bit integer of these bytes:
\* the integer itself when its sign bit is clear, and otherwise the number
\* that added to it gives 2^32
AbsoluteOf(seed, bytes) ==
    LET hi == bytes[4] * 256 + bytes[3]
        lo == bytes[2] * 256 + bytes[1]
    IN  IF bytes[4] < 128
        THEN seed.hi = hi /\ seed.lo = lo
        ELSE /\ (seed.lo + lo) % Half = 0
             /\ (seed.hi + hi + (seed.lo + lo) \div Half) = Half

\* C19: hashString returns the absolute value of the running hash
\* (hash * 31 + char code, wrapped to 32 bits signed at each step), which is
\* never negative, also when the wrapped hash is -2^31; the condition is
\* one of the nine and the temperature lies in its band, min <= t < max.
C19_HashNonNegative ==
    (last.op = "hashString")
    => /\ AbsoluteOf(last.seed, RunningHash(<<0, 0, 0, 0>>, last.str))
       /\ ~last.seed.neg
       /\ last.seed.hi < 32768 \/ (last.seed.hi = 32768 /\ last.seed.lo = 0)
       /\ \E k \in 1..9 : weatherConditions[k] = last.condition
       /\ Len(weatherConditions) = 9
       /\ temperatures(last.condition).min <= last.temperature
       /\ last.temperature < temperatures(last.condition).max

C19_Witness ==
    /\ last.op = "hashString"
    /\ last.wrapped = [hi |-> 32768, lo |-> 0]
    /\ last.seed = [neg |-> FALSE, hi |-> 32768, lo |-> 0]
    /\ last.condition = "cloudy"
    /\ last.temperature = 23

\* C20: registerTool takes an instance under the key get_weather_on_date or
\* sendEmail (no conflict with the built-in tools), yet no call request is
\* ever looked up under these keys: requests with these names go to the
\* tools under weather and email. A request named with any other registered
\* key finds the instance under that key, and calls its execute.
Routed(req, key, tool, invoked, map) ==
    /\ key \notin AliasNames
    /\ req.name = "get_weather_on_date"
          => key = "weather" /\ tool = WeatherToolInst
    /\ req.name = "sendEmail"
          => key = "email" /\ tool = EmailToolInst
    /\ (req.name \notin AliasNames /\ req.name \in Keys(map))
          => key = req.name /\ tool = MapGet(map, req.name)
    /\ \A k \in 1..Len(invoked) : invoked[k].pid = tool.pid
    /\ (tool # NoTool /\ tool.exec # "missing") => Len(invoked) = 1

C20_AliasShadowing ==
    /\ (last.op = "register" /\ last.name \in AliasNames
            /\ last.name \notin Keys(last.before) /\ ~InvalidInstance(last.inst))
          => last.result = "ok" /\ MapGet(tools, last.name) = last.inst
    /\ DispatchFinished
          => Routed(last.req, last.key, last.tool, last.invoked, last.before)
    /\ \A i \in 1..Len(inflight) :
          Routed(inflight[i].req, inflight[i].key, inflight[i].tool,
                 inflight[i].invoked, tools)

C20_Witness ==
    /\ DispatchFinished
    /\ last.req.name = "sendEmail"
    /\ MapGet(last.before, "sendEmail") = GoodInst
    /\ MapGet(last.before, "get_weather_on_date") = NoExecuteInst
    /\ last.tool = EmailToolInst
    /\ last.invoked = << Invocation(EmailToolInst, last.req.args) >>
    /\ last.exec.kind = "reject"
    /\ Len(inflight) > 0
    /\ inflight[1].req.name = "custom"
    /\ inflight[1].tool = GoodInst

====
